---- MODULE Spec2Model ----
(***************************************************************************)
(* Tenant export/import of GlobaLeaks (utils/import_export.py): the        *)
(* collector, the ordered merge and the archive packager/unpacker.         *)
(*                                                                         *)
(* A store is a set of tenant rows and a set of dependent rows.  A row is  *)
(* a record                                                                *)
(*   typ    the entity type (the table),                                   *)
(*   id     the primary key,                                               *)
(*   tid    the tenant-reference column (tid, or tenant_id of usertenant), *)
(*   parent the parent foreign key column,                                 *)
(*   group  fieldanswergroup_id (answer rows),                             *)
(*   qhash  questionnaire_hash (internal tips),                            *)
(* with None in the columns the type does not have or that are NULL.       *)
(***************************************************************************)
EXTENDS Integers, Sequences, FiniteSets, TLC

\* ------------------------------------------------------------------ bounds
MaxId == 2
MaxTenants == 2
MaxRows == 5
MaxOps == 3

\* --------------------------------------------------------------- constants
EXPORTED_TENANT_ID == 0
None == -1

Ids == 1..MaxId
TenantIds == 1..MaxTenants

DIRECT_TID_REFERENCES ==
    << "anomalies", "config", "config_l10n", "context", "custom_texts",
       "enabledlanguages", "field", "file", "submissionstatus", "internaltip",
       "mail", "questionaire", "signup", "shorturl", "stats", "user",
       "usertenant" >>

IMPORT_ORDER_misordered ==
    << "archivedschema", "anomalies", "enabledlanguages", "config",
       "config_l10n", "questionaire", "context", "step", "custom_texts",
       "field", "file", "internaltip", "mail", "signup", "shorturl", "stats",
       "user", "usertenant", "comment", "contextimg",
       "fieldanswergroup", "fieldanswer_nulled", "fieldanswer", "fieldattr",
       "fieldoption", "internalfile", "receiver", "receivercontext",
       "receivertip", "receiverfile", "message", "identityaccessrequest",
       "userimg", "whistleblowerfile", "submissionstatus",
       "submissionsubstatus", "submissionstatuschange" >>

IMPORT_ORDER_short ==
    << "archivedschema", "anomalies", "enabledlanguages", "config",
       "config_l10n", "questionaire", "context", "step", "custom_texts",
       "field", "file", "internaltip", "mail", "signup", "shorturl", "stats",
       "user", "usertenant", "comment", "contextimg",
       "fieldanswer_nulled", "fieldanswergroup", "fieldanswer", "fieldattr",
       "fieldoption", "internalfile", "receiver", "receivercontext",
       "receivertip", "receiverfile", "message", "identityaccessrequest",
       "userimg", "whistleblowerfile", "submissionstatus",
       "submissionsubstatus" >>

IMPORT_ORDER ==
    << "archivedschema", "anomalies", "enabledlanguages", "config",
       "config_l10n", "questionaire", "context", "step", "custom_texts",
       "field", "file", "internaltip", "mail", "signup", "shorturl", "stats",
       "user", "usertenant", "comment", "contextimg",
       "fieldanswer_nulled", "fieldanswergroup", "fieldanswer", "fieldattr",
       "fieldoption", "internalfile", "receiver", "receivercontext",
       "receivertip", "receiverfile", "message", "identityaccessrequest",
       "userimg", "whistleblowerfile", "submissionstatus",
       "submissionsubstatus", "submissionstatuschange" >>

Range(s) == { s[i] : i \in DOMAIN s }

DirectTypes == Range(DIRECT_TID_REFERENCES)

\* The transitively scoped entity types, in the order the collector resolves them.
RELATED ==
    << "archivedschema", "comment", "contextimg", "fieldanswer",
       "fieldanswergroup", "fieldattr", "fieldoption", "internalfile",
       "receiver", "receivercontext", "receivertip", "receiverfile",
       "identityaccessrequest", "message", "step", "userimg",
       "whistleblowerfile", "submissionsubstatus", "submissionstatuschange" >>

RelatedTypes == Range(RELATED)

Types == DirectTypes \cup RelatedTypes

\* The keys of a snapshot besides 'tenant'.
SnapshotKeys == Types \cup {"fieldanswer_nulled"}

\* The table a snapshot key is written to.
ModelOf(key) == IF key = "fieldanswer_nulled" THEN "fieldanswer" ELSE key

\* The key set a related type is resolved from: the type whose rows feed
\* build_id_list, and the column build_id_list reads.
SourceOf(typ) ==
    CASE typ = "archivedschema"         -> "internaltip"
      [] typ = "comment"                -> "internaltip"
      [] typ = "contextimg"             -> "context"
      [] typ = "fieldanswer"            -> "internaltip"
      [] typ = "fieldanswergroup"       -> "fieldanswer"
      [] typ = "fieldattr"              -> "field"
      [] typ = "fieldoption"            -> "field"
      [] typ = "internalfile"           -> "internaltip"
      [] typ = "receiver"               -> "user"
      [] typ = "receivercontext"        -> "context"
      [] typ = "receivertip"            -> "internaltip"
      [] typ = "receiverfile"           -> "internalfile"
      [] typ = "identityaccessrequest"  -> "receivertip"
      [] typ = "message"                -> "receivertip"
      [] typ = "step"                   -> "questionaire"
      [] typ = "userimg"                -> "user"
      [] typ = "whistleblowerfile"      -> "receivertip"
      [] typ = "submissionsubstatus"    -> "submissionstatus"
      [] typ = "submissionstatuschange" -> "internaltip"
      [] OTHER                          -> "none"

SourceColumn(typ) == IF typ = "archivedschema" THEN "questionnaire_hash" ELSE "id"

\* The filter_column the collector hands to collect_pk_relation.
FilterColumn(typ) ==
    CASE typ = "archivedschema"         -> "hash"
      [] typ = "comment"                -> "internaltip_id"
      [] typ = "contextimg"             -> "id"
      [] typ = "fieldanswer"            -> "internaltip_id"
      [] typ = "fieldanswergroup"       -> "fieldanswer_id"
      [] typ = "fieldattr"              -> "field_id"
      [] typ = "fieldoption"            -> "field_id"
      [] typ = "internalfile"           -> "internaltip_id"
      [] typ = "receiver"               -> "id"
      [] typ = "receivercontext"        -> "context_id"
      [] typ = "receivertip"            -> "internaltip_id"
      [] typ = "receiverfile"           -> "internalfile_id"
      [] typ = "identityaccessrequest"  -> "id"
      [] typ = "message"                -> "id"
      [] typ = "step"                   -> "questionnaire_id"
      [] typ = "userimg"                -> "id"
      [] typ = "whistleblowerfile"      -> "receivertip_id"
      [] typ = "submissionsubstatus"    -> "submissionstatus_id"
      [] typ = "submissionstatuschange" -> "internaltip_id"
      [] OTHER                          -> "none"

\* The parent relation of the schema: the table a row's parent foreign key
\* refers to (archived schemas are shared by hash and have no parent).
ParentOf(typ) == IF typ = "archivedschema" THEN "none" ELSE SourceOf(typ)

\* The column of the schema that holds the parent foreign key.  The image and
\* receiver rows share their parent's primary key; messages and identity
\* access requests have a primary key of their own and a receivertip_id.
ParentColumn(typ) ==
    CASE typ \in {"contextimg", "receiver", "userimg"}  -> "id"
      [] typ \in {"message", "identityaccessrequest"}   -> "receivertip_id"
      [] OTHER                                          -> FilterColumn(typ)

\* hasattr(row, 'tid') or hasattr(row, 'tenant_id').
HasTid(typ) == typ \in DirectTypes

Row(typ, id, tid, parent, group, qhash) ==
    [typ |-> typ, id |-> id, tid |-> tid, parent |-> parent, group |-> group,
     qhash |-> qhash]

\* row.__dict__[column_name]
Col(row, column) ==
    CASE column = "id"                  -> row.id
      [] column = "hash"                -> row.id
      [] column = "questionnaire_hash"  -> row.qhash
      [] column = "fieldanswergroup_id" -> row.group
      [] column \in {"tid", "tenant_id"} -> row.tid
      [] OTHER                          -> row.parent

TenantRow(id) == [id |-> id, label |-> 10 + id]

\* ------------------------------------------------------- the stores of Init
\* Every store is reached by inserting rows one at a time under foreign key
\* enforcement.  A store holds the rows of one chain of the parent relation
\* (a type and its ancestors), at most MaxRows of them.
RECURSIVE Ancestors(_)
Ancestors(typ) ==
    IF ParentOf(typ) = "none" THEN {typ} ELSE {typ} \cup Ancestors(ParentOf(typ))

Chains == { Ancestors(t) : t \in Types \ {"archivedschema"} }
            \cup { {"internaltip", "archivedschema"} }

CandRows(typ, chain) ==
    CASE typ = "archivedschema" ->
            { Row(typ, i, None, None, None, None) : i \in Ids }
      [] typ = "internaltip" ->
            { Row(typ, i, t, None, None, h) : i \in Ids, t \in TenantIds,
                h \in IF "archivedschema" \in chain THEN Ids ELSE {1} }
      [] typ \in DirectTypes \ {"internaltip"} ->
            { Row(typ, i, t, None, None, None) : i \in Ids, t \in TenantIds }
      [] typ = "fieldanswer" ->
            { Row(typ, i, None, p, g, None) :
                i \in Ids, p \in Ids, g \in Ids \cup {None} }
      [] ParentColumn(typ) = "id" ->
            { Row(typ, i, None, i, None, None) : i \in Ids }
      [] OTHER ->
            { Row(typ, i, None, p, None, None) : i \in Ids, p \in Ids }

HasRow(rows, typ, id) == \E x \in rows : x.typ = typ /\ x.id = id

\* The foreign keys of a row all resolve in (tenants, rows).
ForeignKeysHold(tenants, rows, r) ==
    /\ HasTid(r.typ) => \E t \in tenants : t.id = r.tid
    /\ (ParentOf(r.typ) # "none" /\ r.parent # None)
          => HasRow(rows, ParentOf(r.typ), r.parent)
    /\ (r.typ = "fieldanswer" /\ r.group # None)
          => HasRow(rows, "fieldanswergroup", r.group)

\* The answers of a group belong to the internal tip of the answer that owns
\* the group: answers are saved per submission, nested groups included.
AnswerTreeHolds(rows, r) ==
    (r.typ = "fieldanswer" /\ r.group # None) =>
        \A g \in rows : (g.typ = "fieldanswergroup" /\ g.id = r.group) =>
            \A a \in rows : (a.typ = "fieldanswer" /\ a.id = g.parent) =>
                a.parent = r.parent

LiveTenants == { TenantRow(t) : t \in TenantIds }

RECURSIVE RowSetsUpTo(_, _)
RowSetsUpTo(k, chain) ==
    IF k = 0 THEN { {} }
    ELSE LET P == RowSetsUpTo(k - 1, chain)
             C == UNION { CandRows(t, chain) : t \in chain }
         IN  P \cup { S \cup {r} : <<S, r>> \in
                        { <<S, r>> \in P \X C :
                            /\ ~HasRow(S, r.typ, r.id)
                            /\ ForeignKeysHold(LiveTenants, S, r)
                            /\ AnswerTreeHolds(S, r) } }

Stores ==
    { [tenants |-> LiveTenants, rows |-> R] :
        R \in UNION { RowSetsUpTo(MaxRows, chain) : chain \in Chains } }

\* ------------------------------------------------------------ the collector
RowsOf(db, typ) == { r \in db.rows : r.typ = typ }

\* The rows of a query, in primary key order.
RECURSIVE SeqOf(_)
SeqOf(S) ==
    IF S = {} THEN << >>
    ELSE LET m == CHOOSE x \in S : \A y \in S : x.id <= y.id
         IN  <<m>> \o SeqOf(S \ {m})

build_id_list(dataset, column_name) ==
    [ i \in DOMAIN dataset |-> Col(dataset[i], column_name) ]

RECURSIVE collect_pk_relation(_, _, _, _)
collect_pk_relation(db, model, pks, filter_column) ==
    IF pks = << >> THEN << >>
    ELSE SeqOf({ r \in RowsOf(db, model) : Col(r, filter_column) = Head(pks) })
            \o collect_pk_relation(db, model, Tail(pks), filter_column)

NulledCopy_kept(rows) == rows

\* copy.deepcopy, then fieldanswer.fieldanswergroup_id = None on each copy
NulledCopy(rows) == [ i \in DOMAIN rows |-> [rows[i] EXCEPT !.group = None] ]

\* tenant_data after the first n related types were resolved.
RECURSIVE CollectRelated(_, _, _)
CollectRelated(db, data, n) ==
    IF n = 0 THEN data
    ELSE LET d   == CollectRelated(db, data, n - 1)
             typ == RELATED[n]
             pks == build_id_list(d[SourceOf(typ)], SourceColumn(typ))
             got == collect_pk_relation(db, typ, pks, FilterColumn(typ))
         IN  [d EXCEPT ![typ] = got,
                       !["fieldanswer_nulled"] =
                           IF typ = "fieldanswer" THEN NulledCopy(got) ELSE @]

CollectDirect(db, tid) ==
    [ k \in SnapshotKeys |->
        IF k \in DirectTypes THEN SeqOf({ r \in RowsOf(db, k) : r.tid = tid })
        ELSE << >> ]

\* session.query(models.Tenant).filter_by(id=tid).first() is a row: on None
\* tenant.label raises.
TenantFound_any(store, tid) == TRUE

TenantFound(store, tid) == \E t \in store.tenants : t.id = tid

collect_all_tenant_data(db, tid) ==
    LET tenant == CHOOSE t \in db.tenants : t.id = tid
    IN  [ tenant |-> [tenant EXCEPT !.id = EXPORTED_TENANT_ID],
          data   |-> CollectRelated(db, CollectDirect(db, tid), Len(RELATED)) ]

\* ------------------------------------------------------------ the merge
Max(S) == CHOOSE x \in S : \A y \in S : y <= x

\* The id the destination assigns to a tenant row inserted with no id.
NextTenantId(tenants) == Max({ t.id : t \in tenants } \cup {0}) + 1

ResolveTenant_alwaysnew(tenants, tenant, tid) ==
    LET new == NextTenantId(tenants)
    IN  [ tid |-> new, tenants |-> tenants \cup { [tenant EXCEPT !.id = new] } ]

\* The tenant row: inserted under a destination-assigned id when tid is None,
\* upserted under tid otherwise.
ResolveTenant(tenants, tenant, tid) ==
    IF tid = None
    THEN LET new == NextTenantId(tenants)
         IN  [ tid |-> new,
               tenants |-> tenants \cup { [tenant EXCEPT !.id = new] } ]
    ELSE [ tid |-> tid,
           tenants |-> { t \in tenants : t.id # tid }
                          \cup { [tenant EXCEPT !.id = tid] } ]

CorrectTid_skipped(data, tid) == data

\* "Correct the TID in all rows".
CorrectTid(data, tid) ==
    [ k \in DOMAIN data |->
        [ i \in DOMAIN data[k] |->
            IF HasTid(data[k][i].typ) THEN [data[k][i] EXCEPT !.tid = tid]
            ELSE data[k][i] ] ]

\* The writes of the replay, in order: a session.merge of a row, or the
\* de-nulling of an answer row already written.
RECURSIVE Writes(_, _)
Writes(data, n) ==
    IF n = 0 THEN << >>
    ELSE LET element == IMPORT_ORDER[n]
         IN  Writes(data, n - 1) \o
             [ i \in DOMAIN data[element] |->
                 [ kind |-> IF element = "fieldanswer" THEN "patch" ELSE "merge",
                   row  |-> data[element][i] ] ]

\* session.merge(row): insert, or overwrite the row of the same primary key.
Upsert(rows, r) == { x \in rows : ~(x.typ = r.typ /\ x.id = r.id) } \cup {r}

Denull_skipped(rows, fieldanswer) == rows

\* nulled_field.fieldanswergroup_id = fieldanswer.fieldanswergroup_id
Denull(rows, fieldanswer) ==
    LET nulled_field ==
            CHOOSE x \in rows : x.typ = "fieldanswer" /\ x.id = fieldanswer.id
    IN  (rows \ {nulled_field})
            \cup { [nulled_field EXCEPT !.group = fieldanswer.group] }

\* One write against the pending state; ok is FALSE when it raises.
ApplyWrite(tenants, rows, w) ==
    IF w.kind = "patch"
    THEN IF ~HasRow(rows, "fieldanswer", w.row.id)
         THEN [ rows |-> rows, ok |-> FALSE ]
         ELSE LET after == Denull(rows, w.row)
              IN  IF \A x \in after :
                        (x.typ = "fieldanswer" /\ x.id = w.row.id)
                            => ForeignKeysHold(tenants, after, x)
                  THEN [ rows |-> after, ok |-> TRUE ]
                  ELSE [ rows |-> rows, ok |-> FALSE ]
    ELSE IF ForeignKeysHold(tenants, rows, w.row)
         THEN [ rows |-> Upsert(rows, w.row), ok |-> TRUE ]
         ELSE [ rows |-> rows, ok |-> FALSE ]

\* The replay from write k on; write failAt raises whatever it holds.
RECURSIVE Replay(_, _, _, _, _)
Replay(tenants, rows, writes, k, failAt) ==
    IF k > Len(writes) THEN [ rows |-> rows, ok |-> TRUE, wrote |-> k - 1 ]
    ELSE IF k = failAt THEN [ rows |-> rows, ok |-> FALSE, wrote |-> k - 1 ]
    ELSE LET r == ApplyWrite(tenants, rows, writes[k])
         IN  IF r.ok THEN Replay(tenants, r.rows, writes, k + 1, failAt)
             ELSE [ rows |-> r.rows, ok |-> FALSE, wrote |-> k - 1 ]

Committed_eachwrite(before, pending, ok) == pending

\* session.commit() is reached only when no write raised.
Committed(before, pending, ok) == IF ok THEN pending ELSE before

merge_tenant_data(store, tenant_data, tid, failAt) ==
    LET rt      == ResolveTenant(store.tenants, tenant_data.tenant, tid)
        data    == CorrectTid(tenant_data.data, rt.tid)
        rep     == Replay(rt.tenants, store.rows, Writes(data, Len(IMPORT_ORDER)),
                          1, failAt)
        pending == [ tenants |-> rt.tenants, rows |-> rep.rows ]
    IN  [ db    |-> Committed(store, pending, rep.ok),
          snap  |-> [ tenant |-> [tenant_data.tenant EXCEPT !.id = tid],
                      data   |-> data ],
          ok    |-> rep.ok,
          tid   |-> rt.tid,
          wrote |-> rep.wrote ]

EmptyStore == [ tenants |-> {}, rows |-> {} ]

NumWrites(tenant_data) ==
    Len(Writes(tenant_data.data, Len(IMPORT_ORDER)))

NoSnapshot == [ tenant |-> [id |-> None, label |-> None],
                data |-> [ k \in SnapshotKeys |-> << >> ] ]

VARIABLES db, snap, origin, last, nops

storeVars == << db, snap, origin, last, nops >>

\* The archive side: the live attachments directory, the file-owning rows of
\* the exported tenant, and the position of one create_export_tarball call
\* and one read_import_tarball call.
VARIABLES live, live0, fileRows, destRows,
          xpc, xtid, xdir, xraised, tarball,
          ipc, blob, idir, iraised, iscratchdb, incoming, irows, inext,
          iretries, itid, ipermsFixed

archiveVars == << live, live0, fileRows, destRows, xpc, xtid, xdir, xraised,
                  tarball, ipc, blob, idir, iraised, iscratchdb, incoming,
                  irows, inext, iretries, itid, ipermsFixed >>

\* Two read_import_tarball calls running at once against one destination.
VARIABLES cpc, cname, ctid, clive, ctenants, cwriter

concVars == << cpc, cname, ctid, clive, ctenants, cwriter >>

\* The submission handlers: the internal tips, the whistleblower tips and the
\* last request served.
VARIABLES tips, wbtips, slast

subVars == << tips, wbtips, slast >>

vars == << storeVars, archiveVars, concVars, subVars >>

NoCall == [ op |-> "none", ok |-> TRUE, tid |-> None, req |-> None,
            pre |-> EmptyStore,
            injected |-> FALSE, partial |-> FALSE, rep |-> FALSE, rt |-> FALSE ]

ArchiveIdle ==
    /\ live = << >>
    /\ live0 = << >>
    /\ fileRows = << >>
    /\ destRows = {}
    /\ xpc = "idle" /\ xtid = None /\ xdir = "none" /\ xraised = FALSE
    /\ tarball = [format |-> None, tenants |-> {}, db |-> << >>,
                  hasdb |-> FALSE, attachments |-> << >>]
    /\ blob = tarball
    /\ iretries = 0
    /\ itid = None
    /\ ipc = "idle" /\ idir = "none" /\ iraised = FALSE
    /\ iscratchdb = "none"
    /\ incoming = << >>
    /\ irows = << >>
    /\ inext = 1
    /\ ipermsFixed = FALSE

StoreIdle ==
    /\ db = EmptyStore
    /\ snap = NoSnapshot
    /\ origin = [tid |-> None, fresh |-> FALSE]
    /\ last = NoCall
    /\ nops = 0

\* The two concurrent imports.
Imports == {1, 2}

ConcIdle ==
    /\ cpc = [p \in Imports |-> "idle"]
    /\ cname = [p \in Imports |-> None]
    /\ ctid = [p \in Imports |-> None]
    /\ clive = << >>
    /\ ctenants = {}
    /\ cwriter = None

NoRequest == [ op |-> "none", id |-> None, finalize |-> FALSE,
               outcome |-> "none", premark |-> "none", pre |-> << >>,
               receipt |-> FALSE ]

SubIdle ==
    /\ tips = << >>
    /\ wbtips = {}
    /\ slast = NoRequest

Init ==
    /\ ArchiveIdle
    /\ ConcIdle
    /\ SubIdle
    /\ db \in Stores
    /\ snap = NoSnapshot
    /\ origin = [tid |-> None, fresh |-> FALSE]
    /\ last = NoCall
    /\ nops = 0

\* collect_all_tenant_data(session, tid) on the live store.  A tenant id with
\* no row makes tenant.label raise on None.
Collect(tid) ==
    /\ nops < MaxOps
    /\ nops' = nops + 1
    /\ db' = db
    /\ UNCHANGED << archiveVars, concVars, subVars >>
    /\ IF TenantFound(db, tid)
       THEN /\ snap' = collect_all_tenant_data(db, tid)
            /\ origin' = [tid |-> tid, fresh |-> TRUE]
            /\ last' = [NoCall EXCEPT !.op = "collect", !.tid = tid, !.req = tid]
       ELSE /\ UNCHANGED << snap, origin >>
            /\ last' = [NoCall EXCEPT !.op = "collect", !.tid = tid, !.req = tid,
                                     !.ok = FALSE]

\* merge_tenant_data(session, tenant_data, tid) on the live store under an
\* explicit tenant id.
MergeExplicit(tid, failAt) ==
    /\ nops < MaxOps
    /\ origin.tid # None
    /\ \E m \in { merge_tenant_data(db, snap, tid, failAt) } :
           /\ db' = m.db
           /\ snap' = m.snap
           /\ origin' = [origin EXCEPT !.fresh = @ /\ m.db = db]
           /\ last' = [ op |-> "merge_explicit", ok |-> m.ok, tid |-> m.tid,
                        req |-> tid,
                        pre |-> db, injected |-> failAt # 0, partial |-> m.wrote > 0,
                        rep |-> /\ last.op = "merge_explicit"
                                /\ last.ok
                                /\ last.req = tid,
                        rt  |-> origin.fresh /\ origin.tid = tid ]
    /\ nops' = nops + 1
    /\ UNCHANGED << archiveVars, concVars, subVars >>

\* write_tenant_to_preexisting_db: merge into the live store with tid None.
WritePreexisting(failAt) ==
    /\ nops < MaxOps
    /\ origin.tid # None
    /\ \E m \in { merge_tenant_data(db, snap, None, failAt) } :
           /\ db' = m.db
           /\ snap' = m.snap
           /\ origin' = [origin EXCEPT !.fresh = @ /\ m.db = db]
           /\ last' = [NoCall EXCEPT !.op = "merge_new", !.ok = m.ok,
                          !.tid = m.tid, !.pre = db, !.injected = failAt # 0,
                          !.partial = m.wrote > 0]
    /\ nops' = nops + 1
    /\ UNCHANGED << archiveVars, concVars, subVars >>

\* write_tenant_to_fresh_db: merge into an empty, foreign-key-enforcing
\* store under the sentinel id.
WriteFresh ==
    /\ nops < MaxOps
    /\ origin.tid # None
    /\ \E m \in { merge_tenant_data(EmptyStore, snap, EXPORTED_TENANT_ID, 0) } :
           /\ snap' = m.snap
           /\ last' = [NoCall EXCEPT !.op = "write_fresh", !.ok = m.ok,
                          !.tid = m.tid, !.pre = EmptyStore,
                          !.partial = m.wrote > 0]
    /\ nops' = nops + 1
    /\ UNCHANGED << db, origin >>
    /\ UNCHANGED << archiveVars, concVars, subVars >>

Next ==
    \/ \E tid \in TenantIds \cup {MaxTenants + 1} : Collect(tid)
    \/ \E tid \in TenantIds : \E failAt \in 0..NumWrites(snap) :
            MergeExplicit(tid, failAt)
    \/ \E failAt \in 0..NumWrites(snap) : WritePreexisting(failAt)
    \/ WriteFresh

Spec == Init /\ [][Next]_vars

\* ------------------------------------------------------------ the archive
MaxKey == 3
MaxFiles == 2
MaxGen == 2
EXPORT_FORMAT == 1

\* generateRandomKey(16)
Keys == 1..MaxKey

\* A stored filename: "pgp_encrypted-" + key for encrypted content, key +
\* ".plain" for the rest.
Name(status, key) == [ encrypted |-> status = "encrypted", key |-> key ]

Names == { Name(st, k) : st \in {"encrypted", "plain"}, k \in Keys }

\* A file-owning row; whistleblower files have no status column.
FileRow(kind, id, filename, status) ==
    [ kind |-> kind, id |-> id, filename |-> filename, status |-> status ]

HasStatus(row) == row.kind = "receiverfile"

FileRowsAt(i) ==
    { FileRow("receiverfile", i, Name(st, k), st) :
        st \in {"encrypted", "reference"}, k \in Keys }
    \cup { FileRow("whistleblowerfile", i, Name("plain", k), "none") : k \in Keys }

\* The file-owning rows of a tenant: receiver files, then whistleblower
\* files, each under a filename of its own.
FileRowSeqs ==
    { rows \in UNION { [1..n -> UNION { FileRowsAt(i) : i \in 1..MaxFiles }] :
                          n \in 0..MaxFiles } :
        /\ \A i \in DOMAIN rows : rows[i] \in FileRowsAt(i)
        /\ \A i, j \in DOMAIN rows : i < j =>
              /\ rows[i].filename # rows[j].filename
              /\ ~(rows[i].kind = "whistleblowerfile" /\ rows[j].kind = "receiverfile") }

\* A directory: the blob under each name it holds.  The blob of a live
\* attachment is told by the name it was stored under.
DirOf(names) == [ n \in names |-> n ]

IsFile(dir, name) == name \in DOMAIN dir

WriteFile(dir, name, content) ==
    [ n \in DOMAIN dir \cup {name} |-> IF n = name THEN content ELSE dir[n] ]

RemoveFile(dir, name) == [ n \in DOMAIN dir \ {name} |-> dir[n] ]

\* An archive: the EXPORT_FORMAT marker (None when there is none), the
\* bundled database (its tenants and its file-owning rows) when there is one,
\* and the entries under attachments/.
NoArchive == [ format |-> None, tenants |-> {}, db |-> << >>, hasdb |-> FALSE,
               attachments |-> << >> ]

process_files_for_tarball_receiveronly(fileset, attachments_path) ==
    DirOf({ fileset[i].filename :
              i \in { j \in DOMAIN fileset : fileset[j].kind = "receiverfile" } }
            \cap DOMAIN attachments_path)

\* process_files_for_tarball over the receiver files and the whistleblower
\* files: a blob that exists is added under attachments/<filename>; a
\* FileNotFoundError is caught, whatever the row's status.
process_files_for_tarball(fileset, attachments_path) ==
    DirOf({ fileset[i].filename : i \in DOMAIN fileset }
            \cap DOMAIN attachments_path)

Rmtree_onsuccess(dir, raised) ==
    IF dir = "exists" /\ ~raised THEN "removed" ELSE dir

\* finally: shutil.rmtree(dirpath)
Rmtree(dir, raised) == IF dir = "exists" THEN "removed" ELSE dir

\* randomize_filename_and_copy(row, status) with the keys generateRandomKey
\* returns, in order.  st holds the live directory, the scratch attachments
\* folder, row.filename and whether the call raised.
RECURSIVE randomize_filename_and_copy(_, _, _)
randomize_filename_and_copy(st, status, ks) ==
    LET orig_filename   == st.filename
        output_filename == Name(status, Head(ks))
        renamed         == [st EXCEPT !.filename = output_filename]
        back == IF IsFile(st.live, output_filename)
                THEN randomize_filename_and_copy(renamed, status, Tail(ks))
                ELSE renamed
    IN  IF back.raised THEN back
        ELSE IF status = "reference" /\ ~IsFile(back.incoming, orig_filename)
        THEN back
        ELSE IF ~IsFile(back.incoming, orig_filename)
        THEN [back EXCEPT !.raised = TRUE]
        ELSE [back EXCEPT
                !.live = WriteFile(@, output_filename,
                                   back.incoming[orig_filename]),
                !.incoming = RemoveFile(@, orig_filename)]

\* The keys one call consumes: every generated name but the last exists in
\* the live directory.
KeyRuns(status, dir) ==
    { ks \in UNION { [1..n -> Keys] : n \in 1..MaxGen } :
        /\ \A i \in 1..(Len(ks) - 1) : IsFile(dir, Name(status, ks[i]))
        /\ ~IsFile(dir, Name(status, ks[Len(ks)])) }

\* session.merge of the file-owning rows into the destination.
MergeFileRows(dest, rows) ==
    { x \in dest : \A i \in DOMAIN rows :
                      ~(x.kind = rows[i].kind /\ x.id = rows[i].id) }
        \cup Range(rows)

\* The database write_tenant_to_fresh_db leaves in the scratch directory.
ExportDatabase(store, tid) ==
    merge_tenant_data(EmptyStore, collect_all_tenant_data(store, tid),
                      EXPORTED_TENANT_ID, 0).db

\* The markers an archive handed to read_import_tarball may hold.
Formats == {None, EXPORT_FORMAT, EXPORT_FORMAT + 1}

InitArchive ==
    /\ db = [tenants |-> LiveTenants, rows |-> {}]
    /\ snap = NoSnapshot
    /\ origin = [tid |-> None, fresh |-> FALSE]
    /\ last = NoCall
    /\ nops = 0
    /\ ConcIdle
    /\ SubIdle
    /\ fileRows \in FileRowSeqs
    /\ \E names \in SUBSET Names : live = DirOf(names)
    /\ live0 = live
    /\ destRows = Range(fileRows)
    /\ xpc = "idle" /\ xtid = None /\ xdir = "none" /\ xraised = FALSE
    /\ tarball = NoArchive
    /\ blob = NoArchive
    /\ ipc = "idle" /\ idir = "none" /\ iraised = FALSE
    /\ iscratchdb = "none"
    /\ incoming = << >>
    /\ irows = << >>
    /\ inext = 1
    /\ iretries = 0
    /\ itid = None
    /\ ipermsFixed = FALSE

importVars == << ipc, blob, idir, iraised, iscratchdb, incoming, irows, inext,
                 iretries, itid, ipermsFixed, live, live0, destRows >>

exportVars == << xpc, xtid, xdir, xraised, tarball >>

otherVars == << fileRows, storeVars, concVars, subVars >>

\* create_export_tarball: collect_all_tenant_data, before the try.
XCollect(tid, ok) ==
    /\ xpc = "idle"
    /\ xtid' = tid
    /\ IF ok /\ TenantFound(db, tid)
       THEN xpc' = "mkdtemp" /\ xraised' = xraised
       ELSE xpc' = "done" /\ xraised' = TRUE
    /\ UNCHANGED << xdir, tarball, importVars, otherVars >>

XMkdtemp(ok) ==
    /\ xpc = "mkdtemp"
    /\ IF ok THEN xdir' = "exists" /\ xpc' = "writedb" /\ xraised' = xraised
       ELSE xdir' = xdir /\ xpc' = "finally" /\ xraised' = TRUE
    /\ UNCHANGED << xtid, tarball, importVars, otherVars >>

\* write_tenant_to_fresh_db(tenant_data, dirpath + "/globaleaks.db")
XWriteDb(ok) ==
    /\ xpc = "writedb"
    /\ IF ok THEN xpc' = "marker" /\ xraised' = xraised
       ELSE xpc' = "finally" /\ xraised' = TRUE
    /\ UNCHANGED << xtid, xdir, tarball, importVars, otherVars >>

XMarker(ok) ==
    /\ xpc = "marker"
    /\ IF ok THEN xpc' = "tar" /\ xraised' = xraised
       ELSE xpc' = "finally" /\ xraised' = TRUE
    /\ UNCHANGED << xtid, xdir, tarball, importVars, otherVars >>

\* The tar: the marker, the database, the attachments.
XTar(ok) ==
    /\ xpc = "tar"
    /\ IF ok
       THEN /\ tarball' = [ format |-> EXPORT_FORMAT,
                            tenants |-> ExportDatabase(db, xtid).tenants,
                            db |-> fileRows,
                            hasdb |-> TRUE,
                            attachments |->
                                process_files_for_tarball(fileRows, live) ]
            /\ xraised' = xraised
       ELSE /\ tarball' = tarball
            /\ xraised' = TRUE
    /\ xpc' = "finally"
    /\ UNCHANGED << xtid, xdir, importVars, otherVars >>

XFinally ==
    /\ xpc = "finally"
    /\ xdir' = Rmtree(xdir, xraised)
    /\ xpc' = "done"
    /\ UNCHANGED << xtid, xraised, tarball, importVars, otherVars >>

\* read_import_tarball(gl_session, tarball_blob): the archive the export
\* returned, under the marker and with or without the database file it is
\* handed in with.
IMkdtemp(ok, format, hasdb) ==
    /\ ipc = "idle"
    /\ xpc = "done" /\ ~xraised
    /\ blob' = [tarball EXCEPT !.format = format, !.hasdb = hasdb]
    /\ IF ok THEN idir' = "exists" /\ ipc' = "extract" /\ iraised' = iraised
       ELSE idir' = idir /\ ipc' = "finally" /\ iraised' = TRUE
    /\ live0' = live
    /\ UNCHANGED << iscratchdb, incoming, irows, inext, iretries, itid,
                    ipermsFixed, live, destRows, exportVars, otherVars >>

IExtract(ok) ==
    /\ ipc = "extract"
    /\ IF ok
       THEN /\ incoming' = blob.attachments
            /\ iscratchdb' = IF blob.hasdb THEN "present" ELSE "none"
            /\ ipc' = "collect"
            /\ iraised' = iraised
       ELSE /\ UNCHANGED << incoming, iscratchdb >>
            /\ ipc' = "finally"
            /\ iraised' = TRUE
    /\ UNCHANGED << blob, idir, irows, inext, iretries, itid, ipermsFixed,
                    live, live0, destRows, exportVars, otherVars >>

\* collect_all_tenant_data(tenant_session, EXPORTED_TENANT_ID): without the
\* database file the session opens an empty database and the query raises.
ICollect(ok) ==
    /\ ipc = "collect"
    /\ IF /\ ok
          /\ blob.hasdb
          /\ TenantFound([tenants |-> blob.tenants], EXPORTED_TENANT_ID)
       THEN irows' = blob.db /\ ipc' = "rekey" /\ iraised' = iraised
       ELSE irows' = irows /\ ipc' = "finally" /\ iraised' = TRUE
    /\ inext' = 1
    /\ UNCHANGED << blob, idir, iscratchdb, incoming, iretries, itid,
                    ipermsFixed, live, live0, destRows, exportVars, otherVars >>

\* "Now run the copies": the next row of the receiver files, then of the
\* whistleblower files.
IRekey(ks) ==
    /\ ipc = "rekey"
    /\ inext <= Len(irows)
    /\ LET row    == irows[inext]
           status == IF HasStatus(row) THEN row.status ELSE "plain"
       IN  /\ ks \in KeyRuns(status, live)
           /\ \E r \in { randomize_filename_and_copy(
                            [ live |-> live, incoming |-> incoming,
                              filename |-> row.filename, raised |-> FALSE ],
                            status, ks) } :
                /\ live' = r.live
                /\ incoming' = r.incoming
                /\ irows' = [irows EXCEPT ![inext].filename = r.filename]
                /\ IF r.raised
                   THEN ipc' = "finally" /\ iraised' = TRUE /\ inext' = inext
                   ELSE ipc' = ipc /\ iraised' = iraised /\ inext' = inext + 1
    /\ iretries' = Len(ks) - 1
    /\ UNCHANGED << blob, idir, iscratchdb, itid, ipermsFixed, live0,
                    destRows, exportVars, otherVars >>

\* merge_tenant_data(gl_session, tenant_data, tid=None)
IMerge(ok) ==
    /\ ipc = "rekey"
    /\ inext > Len(irows)
    /\ IF ok
       THEN /\ destRows' = MergeFileRows(destRows, irows)
            /\ itid' = NextTenantId(db.tenants)
            /\ ipc' = "overwrite"
            /\ iraised' = iraised
       ELSE /\ UNCHANGED << destRows, itid >>
            /\ ipc' = "finally"
            /\ iraised' = TRUE
    /\ UNCHANGED << blob, idir, iscratchdb, incoming, irows, inext, iretries,
                    ipermsFixed, live, live0, exportVars, otherVars >>

\* overwrite_and_remove(dirpath + "/globaleaks.db")
IOverwriteDb ==
    /\ ipc = "overwrite"
    /\ iscratchdb' = "erased"
    /\ ipc' = "finally"
    /\ UNCHANGED << blob, idir, iraised, incoming, irows, inext, iretries,
                    itid, ipermsFixed, live, live0, destRows, exportVars,
                    otherVars >>

\* finally: shutil.rmtree(dirpath); with dirpath unbound the finally block
\* raises before it fixes the permissions.
IFinally ==
    /\ ipc = "finally"
    /\ idir' = Rmtree(idir, iraised)
    /\ iscratchdb' = IF iscratchdb = "present" /\ Rmtree(idir, iraised) = "removed"
                     THEN "removed" ELSE iscratchdb
    /\ ipc' = IF idir = "none" THEN "done" ELSE "fixperm"
    /\ UNCHANGED << blob, iraised, incoming, irows, inext, iretries, itid,
                    ipermsFixed, live, live0, destRows, exportVars, otherVars >>

IFixPermissions ==
    /\ ipc = "fixperm"
    /\ ipermsFixed' = TRUE
    /\ ipc' = "done"
    /\ UNCHANGED << blob, idir, iraised, iscratchdb, incoming, irows, inext,
                    iretries, itid, live, live0, destRows, exportVars,
                    otherVars >>

NextArchive ==
    \/ \E tid \in TenantIds \cup {MaxTenants + 1} : \E ok \in BOOLEAN :
            XCollect(tid, ok)
    \/ \E ok \in BOOLEAN : XMkdtemp(ok)
    \/ \E ok \in BOOLEAN : XWriteDb(ok)
    \/ \E ok \in BOOLEAN : XMarker(ok)
    \/ \E ok \in BOOLEAN : XTar(ok)
    \/ XFinally
    \/ \E ok \in BOOLEAN : \E format \in Formats : \E hasdb \in BOOLEAN :
            IMkdtemp(ok, format, hasdb)
    \/ \E ok \in BOOLEAN : IExtract(ok)
    \/ \E ok \in BOOLEAN : ICollect(ok)
    \/ \E ks \in UNION { [1..n -> Keys] : n \in 1..MaxGen } : IRekey(ks)
    \/ \E ok \in BOOLEAN : IMerge(ok)
    \/ IOverwriteDb
    \/ IFinally
    \/ IFixPermissions

SpecArchive == InitArchive /\ [][NextArchive]_vars

\* ------------------------------------------------- two imports at once
\* Each import relocates one whistleblower file whose blob is in its archive,
\* then merges its tenant under no explicit id.  The live directory holds,
\* under each name, the import that wrote the blob (0: there beforehand).
PlainNames == { Name("plain", k) : k \in Keys }

InitConcurrent ==
    /\ StoreIdle
    /\ ArchiveIdle
    /\ SubIdle
    /\ cpc = [p \in Imports |-> "rekey"]
    /\ cname = [p \in Imports |-> None]
    /\ ctid = [p \in Imports |-> None]
    /\ \E names \in SUBSET PlainNames : clive = [n \in names |-> 0]
    /\ ctenants = LiveTenants
    /\ cwriter = None

restVars == << storeVars, archiveVars, subVars >>

\* row.filename = generateRandomKey(16) + ".plain", then the os.path.isfile
\* test: a name that exists is generated again.
CGenerate(p, k) ==
    /\ cpc[p] = "rekey"
    /\ IF IsFile(clive, Name("plain", k))
       THEN UNCHANGED << cpc, cname >>
       ELSE /\ cname' = [cname EXCEPT ![p] = Name("plain", k)]
            /\ cpc' = [cpc EXCEPT ![p] = "copy"]
    /\ UNCHANGED << ctid, clive, ctenants, cwriter, restVars >>

\* shutil.copy(input_filename, output_filename)
CCopy(p) ==
    /\ cpc[p] = "copy"
    /\ clive' = WriteFile(clive, cname[p], p)
    /\ cpc' = [cpc EXCEPT ![p] = "merge"]
    /\ UNCHANGED << cname, ctid, ctenants, cwriter, restVars >>

\* session.merge(tenant) with id None, session.flush(): the destination
\* admits one writing transaction at a time and assigns the next tenant id.
CFlushTenant(p) ==
    /\ cpc[p] = "merge"
    /\ cwriter = None
    /\ cwriter' = p
    /\ ctid' = [ctid EXCEPT ![p] = NextTenantId(ctenants)]
    /\ cpc' = [cpc EXCEPT ![p] = "commit"]
    /\ UNCHANGED << cname, clive, ctenants, restVars >>

\* session.commit()
CCommit(p) ==
    /\ cpc[p] = "commit"
    /\ ctenants' = ctenants \cup { TenantRow(ctid[p]) }
    /\ cwriter' = None
    /\ cpc' = [cpc EXCEPT ![p] = "done"]
    /\ UNCHANGED << cname, ctid, clive, restVars >>

NextConcurrent ==
    \E p \in Imports :
        \/ \E k \in Keys : CGenerate(p, k)
        \/ CCopy(p)
        \/ CFlushTenant(p)
        \/ CCommit(p)

SpecConcurrent == InitConcurrent /\ [][NextConcurrent]_vars

\* ------------------------------------------------ the submission handlers
MaxSub == 2

\* InternalTip._marker: [0] while the submission is open, [1] once finalized.
InternalTip_marker == << "submission", "finalize" >>

Marker(n) == InternalTip_marker[n + 1]

SubmissionIds == 1..MaxSub

\* The contexts of the node; one context_gus of a request matches none.
ContextIds == {1, 2}

ContextGus == ContextIds \cup {3}

\* A wbSubmissionDesc: receivers tells whether a receiver is selected,
\* wb_fields whether the fields are absent, as the context expects, or hold a
\* key the context does not define.
Requests ==
    [ context_gus : ContextGus, receivers : BOOLEAN,
      wb_fields : {"none", "valid", "unexpected"}, finalize : BOOLEAN ]

\* import_receivers then import_fields; files are not part of the requests.
ImportOutcome(request, finalize) ==
    IF finalize /\ ~request.receivers THEN "SubmissionFailFields"
    ELSE IF finalize /\ request.wb_fields = "none" THEN "SubmissionFailFields"
    ELSE IF request.wb_fields = "unexpected" THEN "SubmissionFailFields"
    ELSE "ok"

\* if finalize: mark = _marker[0] else: mark = _marker[1]
CreateMark(finalize) == IF finalize THEN Marker(0) ELSE Marker(1)

FreshId(store) == CHOOSE i \in SubmissionIds \ DOMAIN store : TRUE

AddTip(store, id, tip) ==
    [ i \in DOMAIN store \cup {id} |-> IF i = id THEN tip ELSE store[i] ]

create_submission(store, request, finalize) ==
    IF request.context_gus \notin ContextIds
    THEN [ store |-> store, outcome |-> "ContextGusNotFound", id |-> None ]
    ELSE IF ImportOutcome(request, finalize) # "ok"
    THEN [ store |-> store, outcome |-> ImportOutcome(request, finalize),
           id |-> None ]
    ELSE [ store |-> AddTip(store, FreshId(store),
                            [ mark |-> CreateMark(finalize),
                              context_id |-> request.context_gus,
                              wb_fields |-> request.wb_fields ]),
           outcome |-> "ok", id |-> FreshId(store) ]

update_submission(store, id, request, finalize) ==
    IF id \notin DOMAIN store
    THEN [ store |-> store, outcome |-> "SubmissionGusNotFound" ]
    ELSE IF store[id].mark # Marker(0)
    THEN [ store |-> store, outcome |-> "SubmissionConcluded" ]
    ELSE IF request.context_gus \notin ContextIds
              \/ store[id].context_id # request.context_gus
    THEN [ store |-> store, outcome |-> "ContextGusNotFound" ]
    ELSE IF ImportOutcome(request, finalize) # "ok"
    THEN [ store |-> store, outcome |-> ImportOutcome(request, finalize) ]
    ELSE [ store |-> [store EXCEPT
                        ![id].wb_fields = request.wb_fields,
                        ![id].mark = IF finalize THEN Marker(1) ELSE @],
           outcome |-> "ok" ]

\* submission.mark != submission._marked[0]: InternalTip is defined outside
\* this module; has_marked tells whether it has an attribute _marked (then
\* an alias of _marker).
delete_submission(store, id, has_marked) ==
    IF id \notin DOMAIN store
    THEN [ store |-> store, outcome |-> "SubmissionGusNotFound" ]
    ELSE IF ~has_marked
    THEN [ store |-> store, outcome |-> "AttributeError" ]
    ELSE IF store[id].mark # Marker(0)
    THEN [ store |-> store, outcome |-> "SubmissionConcluded" ]
    ELSE [ store |-> [ i \in DOMAIN store \ {id} |-> store[i] ],
           outcome |-> "ok" ]

MarkOf(store, id) == IF id \in DOMAIN store THEN store[id].mark ELSE "none"

InitSubmission ==
    /\ StoreIdle
    /\ ArchiveIdle
    /\ ConcIdle
    /\ SubIdle

nonSubVars == << storeVars, archiveVars, concVars >>

\* SubmissionCreate.post
Post(request) ==
    /\ DOMAIN tips # SubmissionIds
    /\ \E r \in { create_submission(tips, request, request.finalize) } :
          /\ tips' = r.store
          /\ wbtips' = IF r.outcome = "ok" /\ request.finalize
                       THEN wbtips \cup {r.id} ELSE wbtips
          /\ slast' = [ op |-> "post", id |-> r.id,
                        finalize |-> request.finalize, outcome |-> r.outcome,
                        premark |-> "none", pre |-> tips,
                        receipt |-> r.outcome = "ok" /\ request.finalize ]
    /\ UNCHANGED nonSubVars

\* SubmissionInstance.put: update_submission(submission_gus, request) is
\* called without its finalize argument, whatever the request holds.
Put(id, finalize) ==
    /\ slast' = [ op |-> "put", id |-> id, finalize |-> finalize,
                  outcome |-> "TypeError", premark |-> MarkOf(tips, id),
                  pre |-> tips, receipt |-> FALSE ]
    /\ UNCHANGED << tips, wbtips, nonSubVars >>

\* update_submission called with all of its arguments.
UpdateSubmission(id, request, finalize) ==
    /\ \E r \in { update_submission(tips, id, request, finalize) } :
          /\ tips' = r.store
          /\ slast' = [ op |-> "update_submission", id |-> id,
                        finalize |-> finalize, outcome |-> r.outcome,
                        premark |-> MarkOf(tips, id), pre |-> tips,
                        receipt |-> FALSE ]
    /\ UNCHANGED << wbtips, nonSubVars >>

\* SubmissionInstance.delete
Delete(id, has_marked) ==
    /\ \E r \in { delete_submission(tips, id, has_marked) } :
          /\ tips' = r.store
          /\ slast' = [ op |-> "delete", id |-> id, finalize |-> FALSE,
                        outcome |-> r.outcome, premark |-> MarkOf(tips, id),
                        pre |-> tips, receipt |-> FALSE ]
    /\ UNCHANGED << wbtips, nonSubVars >>

NextSubmission ==
    \/ \E request \in Requests : Post(request)
    \/ \E id \in SubmissionIds : \E finalize \in BOOLEAN : Put(id, finalize)
    \/ \E id \in SubmissionIds : \E request \in Requests :
            UpdateSubmission(id, request, request.finalize)
    \/ \E id \in SubmissionIds : \E has_marked \in BOOLEAN :
            Delete(id, has_marked)

SpecSubmission == InitSubmission /\ [][NextSubmission]_vars

\* ------------------------------------------------------------------ claims
SnapshotRows(s, key) == Range(s.data[key])

\* Every foreign key of every row of the snapshot resolves in the snapshot;
\* the nulled answer rows carry no group reference.
Closed(s) ==
    \A key \in SnapshotKeys : \A r \in SnapshotRows(s, key) :
        /\ (ParentOf(r.typ) # "none" /\ r.parent # None)
              => \E x \in SnapshotRows(s, ParentOf(r.typ)) : x.id = r.parent
        /\ (r.typ = "fieldanswer" /\ r.group # None)
              => /\ key = "fieldanswer"
                 /\ \E x \in SnapshotRows(s, "fieldanswergroup") : x.id = r.group

\* The tenant a row belongs to in a store: its own tenant reference, or the
\* one inherited through its parent chain (None when there is none).
RECURSIVE TenantOf(_, _)
TenantOf(store, r) ==
    IF HasTid(r.typ) THEN r.tid
    ELSE IF ParentOf(r.typ) = "none" \/ r.parent = None
              \/ ~HasRow(store.rows, ParentOf(r.typ), r.parent)
         THEN None
         ELSE TenantOf(store, CHOOSE x \in store.rows :
                                 x.typ = ParentOf(r.typ) /\ x.id = r.parent)

HasGroupedAnswer(s) ==
    \E r \in SnapshotRows(s, "fieldanswer") : r.group # None

\* C1: replaying a referentially closed snapshot in IMPORT_ORDER into an empty
\* store that enforces foreign keys never raises: every write finds the rows
\* its foreign keys refer to already written.
C1_OrderingSafety ==
    (last.op = "write_fresh" /\ Closed(snap)) => last.ok

C1_Witness ==
    /\ last.op = "write_fresh"
    /\ last.ok
    /\ Closed(snap)
    /\ HasGroupedAnswer(snap)

\* C2: a snapshot collected from tenant T and merged back under the explicit
\* id T into the unchanged store succeeds and leaves the store as it was,
\* the answers' fieldanswergroup_id included.
C2_RoundTrip ==
    (last.op = "merge_explicit" /\ last.rt /\ ~last.injected)
        => (last.ok /\ db = last.pre)

C2_Witness ==
    /\ last.op = "merge_explicit"
    /\ last.rt
    /\ last.ok
    /\ HasGroupedAnswer(snap)
    /\ \E r \in db.rows : r.typ = "fieldanswer" /\ r.group # None
                            /\ TenantOf(db, r) = last.tid

\* C3: a merge whose replay raises commits nothing (the committed store is
\* the store before the call); a merge that does not raise commits the
\* tenant row and every row of the snapshot.
C3_MergeAtomic ==
    last.op \in {"merge_explicit", "merge_new"} =>
        /\ ~last.ok => db = last.pre
        /\ last.ok =>
              /\ \E t \in db.tenants : t.id = last.tid
              /\ \A key \in SnapshotKeys \ {"fieldanswer_nulled"} :
                    SnapshotRows(snap, key) \subseteq db.rows

C3_Witness ==
    /\ last.op = "merge_new"
    /\ ~last.ok
    /\ last.partial

\* C4: a merge with no explicit tenant id allocates an id no tenant of the
\* destination has and leaves every row the destination held unchanged and
\* with the tenant it had.
C4_IndependentTenant ==
    (last.op = "merge_new" /\ last.ok) =>
        /\ \A t \in last.pre.tenants : t.id # last.tid
        /\ last.pre.tenants \subseteq db.tenants
        /\ \A r \in last.pre.rows :
              r \in db.rows /\ TenantOf(db, r) = TenantOf(last.pre, r)

\* C5: merging the same snapshot a second time under the same explicit id
\* succeeds and leaves the store as the first merge left it, with one row
\* per primary key.
C5_Idempotent ==
    (last.op = "merge_explicit" /\ last.rep /\ ~last.injected) =>
        /\ last.ok
        /\ db = last.pre
        /\ \A x, y \in db.rows : (x.typ = y.typ /\ x.id = y.id) => x = y

C5_Witness ==
    /\ last.op = "merge_explicit"
    /\ last.rep
    /\ last.ok
    /\ HasGroupedAnswer(snap)
    /\ Len(snap.data["fieldanswergroup"]) > 0

\* C6: no row of the snapshot collected for a tenant belongs, directly or
\* through its parent chain, to another tenant.
C6_TenantIsolation ==
    (last.op = "collect" /\ last.ok) =>
        \A key \in SnapshotKeys : \A r \in SnapshotRows(snap, key) :
            TenantOf(db, r) \in {None, last.tid}

\* C7: every foreign key of every row of a collected snapshot resolves to a
\* row of the same snapshot (the nulled answer rows hold no group reference).
C7_ReferentialClosure ==
    (last.op = "collect" /\ last.ok) => Closed(snap)
MissingBlob(row) == ~IsFile(live, row.filename)

\* C8: packaging skips a receiver file or whistleblower file whose blob is
\* missing, and succeeds, only when the row's status is 'reference'; a
\* missing blob of any other row makes create_export_tarball fail.
C8_ArchiveTolerance ==
    (xpc = "done" /\ \E i \in DOMAIN fileRows :
                        /\ MissingBlob(fileRows[i])
                        /\ ~(HasStatus(fileRows[i])
                                /\ fileRows[i].status = "reference"))
        => (xraised /\ tarball = NoArchive)

\* C9: after read_import_tarball completes, every attachment the live
\* directory held before the import is still there with its content, and no
\* two file-owning rows of the destination share the stored name of a live
\* attachment.
C9_FilenameSafety ==
    (ipc = "done" /\ ~iraised) =>
        /\ \A n \in DOMAIN live0 : IsFile(live, n) /\ live[n] = live0[n]
        /\ \A x, y \in destRows :
              (x.filename = y.filename /\ IsFile(live, x.filename)) => x = y

\* C10: when create_export_tarball or read_import_tarball has ended, by
\* returning or by raising at any step, its scratch directory does not exist.
C10_ScratchCleanup ==
    /\ xpc = "done" => xdir # "exists"
    /\ ipc = "done" => idir # "exists"

C10_Witness ==
    /\ ipc = "done"
    /\ iraised
    /\ idir = "removed"
    /\ xdir = "removed"
    /\ inext > Len(irows)
    /\ Len(irows) > 0
ImportsDone == \A p \in Imports : cpc[p] = "done"

\* C11: two imports with no explicit tenant id running at once end with
\* distinct tenant ids, distinct stored names, and each import's blob still
\* under the name it relocated it to.
C11_ConcurrentImports ==
    ImportsDone =>
        \A p, q \in Imports :
            /\ p # q => (ctid[p] # ctid[q] /\ cname[p] # cname[q])
            /\ IsFile(clive, cname[p]) /\ clive[cname[p]] = p
BadArchive(a) == a.format # 1 \/ ~a.hasdb

\* C13: read_import_tarball of an archive whose marker is missing or is not
\* 1, or whose database file is missing, fails and adds no tenant, no row
\* and no attachment.
C13_RejectBadArchive ==
    (ipc = "done" /\ BadArchive(blob)) =>
        /\ iraised
        /\ itid = None
        /\ live = live0
        /\ destRows = Range(fileRows)

SubmissionCalls == {"put", "update_submission", "delete"}

\* C15: an update or a delete of a submission whose mark is the finalized
\* marker fails with SubmissionConcluded and leaves the submissions as they
\* were, and no request turns a finalized mark into the open one.
C15_ConcludedIsFinal ==
    /\ (slast.op \in SubmissionCalls /\ slast.premark = Marker(1)) =>
          (slast.outcome = "SubmissionConcluded" /\ tips = slast.pre)
    /\ \A id \in DOMAIN slast.pre \cap DOMAIN tips :
          slast.pre[id].mark = Marker(1) => tips[id].mark = Marker(1)

\* C16: a submission created without finalize holds the open mark, one
\* created or updated with finalize holds the finalized mark, and an update
\* of an open submission that passes validation is accepted.
C16_OpenUntilFinalize ==
    /\ (slast.op = "post" /\ slast.outcome = "ok") =>
          tips[slast.id].mark = IF slast.finalize THEN Marker(1) ELSE Marker(0)
    /\ (slast.op \in {"put", "update_submission"} /\ slast.outcome = "ok") =>
          tips[slast.id].mark = IF slast.finalize THEN Marker(1) ELSE Marker(0)

MergeOps == {"merge_explicit", "merge_new", "write_fresh"}

ReplayedWrites == Writes(snap.data, Len(IMPORT_ORDER))

IsAnswerMerge(w) == w.kind = "merge" /\ w.row.typ = "fieldanswer"

IsGroupMerge(w) == w.kind = "merge" /\ w.row.typ = "fieldanswergroup"

\* C17: in the replay of merge_tenant_data the answer rows are written with
\* a null fieldanswergroup_id before every answer-group row, the answer-group
\* rows before every patch, the answer rows are written by session.merge only
\* in their nulled form, and a merge that commits leaves every answer row of
\* the snapshot with the fieldanswergroup_id it was collected with.
C17_TwoPhaseCycleBreak ==
    last.op \in MergeOps =>
        \A w \in { ReplayedWrites } :
            /\ \A i, j \in DOMAIN w :
                  /\ (IsAnswerMerge(w[i]) /\ IsGroupMerge(w[j])) => i < j
                  /\ (IsGroupMerge(w[i]) /\ w[j].kind = "patch") => i < j
            /\ \A i \in DOMAIN w : IsAnswerMerge(w[i]) => w[i].row.group = None
            /\ (last.ok /\ last.op # "write_fresh") =>
                  \A r \in SnapshotRows(snap, "fieldanswer") :
                     \E x \in db.rows :
                        x.typ = "fieldanswer" /\ x.id = r.id /\ x.group = r.group

C17_Witness ==
    /\ last.op = "merge_new"
    /\ last.ok
    /\ \E w \in { ReplayedWrites } : \E i, j \in DOMAIN w :
          /\ IsGroupMerge(w[i])
          /\ w[j].kind = "patch"
          /\ w[j].row.group = w[i].row.id

ChainedTypes ==
    {"message", "identityaccessrequest", "whistleblowerfile", "receiverfile"}

\* C18: every message, identity access request and whistleblower file whose
\* receiver tip is in the snapshot, and every receiver file whose internal
\* file is in the snapshot, is in the snapshot.
C18_ChainedComplete ==
    (last.op = "collect" /\ last.ok) =>
        \A r \in db.rows :
            (/\ r.typ \in ChainedTypes
             /\ \E x \in SnapshotRows(snap, ParentOf(r.typ)) : x.id = r.parent)
                => r \in SnapshotRows(snap, r.typ)

\* C19: no list of a collected snapshot holds a primary id twice.
C19_NoDuplicates ==
    (last.op = "collect" /\ last.ok) =>
        \A key \in SnapshotKeys :
            \A i, j \in DOMAIN snap.data[key] :
                snap.data[key][i].id = snap.data[key][j].id => i = j

\* The row the last rekeying step worked on.
LastRekeyed ==
    IF inext > Len(irows) THEN Len(irows)
    ELSE IF iraised THEN inext ELSE inext - 1

\* C20: when the name generated for a row exists in the live directory and
\* a free name is generated next, rekeying does not fail, and a row whose
\* blob is in the archive has that blob under its stored filename.
C20_CollisionRecoverable ==
    (iretries > 0 /\ ipc # "idle") =>
        /\ ~(iraised /\ inext <= Len(irows))
        /\ IsFile(blob.attachments, blob.db[LastRekeyed].filename) =>
              /\ IsFile(live, irows[LastRekeyed].filename)
              /\ live[irows[LastRekeyed].filename]
                    = blob.attachments[blob.db[LastRekeyed].filename]
\* C21: a read_import_tarball call that raised leaves the destination as it
\* was: no tenant and no row of the import in the database, and no blob the
\* import relocated in the live attachments directory.
C21_FailedImportUntouched ==
    (ipc = "done" /\ iraised) =>
        /\ itid = None
        /\ destRows = Range(fileRows)
        /\ live = live0

\* C22: in every run of read_import_tarball the scratch database is
\* overwritten before the scratch directory is removed, never removed with
\* the directory as it is, and the permissions of the live tree are repaired
\* after the removal.
C22_TeardownOrder ==
    /\ iscratchdb # "removed"
    /\ idir = "removed" => iscratchdb \in {"none", "erased"}
    /\ ipc = "done" => ipermsFixed

\* C23: a merge that completes under the resolved tenant id t leaves a
\* tenant row of id t, and every row of the snapshot that has a
\* tenant-reference column is written with that column equal to t.
C23_TenantRewrite ==
    (last.op \in MergeOps /\ last.ok) =>
        /\ last.op # "write_fresh" => \E t \in db.tenants : t.id = last.tid
        /\ \A key \in SnapshotKeys : \A r \in SnapshotRows(snap, key) :
              HasTid(r.typ) =>
                  /\ r.tid = last.tid
                  /\ last.op # "write_fresh" => r \in db.rows

C23_Witness ==
    /\ last.op = "merge_new"
    /\ last.ok
    /\ \A t \in last.pre.tenants : t.id # last.tid
    /\ \E r \in db.rows : HasTid(r.typ) /\ r.tid = last.tid

\* C24: the keys of a collected snapshot, 'tenant' aside, are exactly the
\* names of IMPORT_ORDER, each of which is listed once.
C24_ReplayCoversSnapshot ==
    (last.op = "collect" /\ last.ok) =>
        /\ DOMAIN snap.data = Range(IMPORT_ORDER)
        /\ \A i, j \in DOMAIN IMPORT_ORDER :
              IMPORT_ORDER[i] = IMPORT_ORDER[j] => i = j

C24_Witness ==
    /\ last.op = "collect"
    /\ last.ok
    /\ Len(snap.data["submissionstatuschange"]) > 0
    /\ Len(snap.data["internaltip"]) > 0

\* C25: a POST or PUT creates a receipt only when it asks to finalize and
\* leaves the submission with the finalized mark, and only for a submission
\* that request created, so no submission gets a second receipt.
C25_OneReceiptWhenFinalized ==
    (slast.op \in {"post", "put"} /\ slast.receipt) =>
        /\ slast.finalize
        /\ MarkOf(tips, slast.id) = Marker(1)
        /\ slast.id \notin DOMAIN slast.pre
====
